---- MODULE Spec2Model ----
(***************************************************************************)
(* Model of packages/mrm-core/src/npm.js: install() and uninstall()        *)
(* reconcile a request against package.json and node_modules and hand at   *)
(* most one npm/yarn command to the command runner.                        *)
(*                                                                         *)
(* JavaScript values are modelled as strings; Undefined stands for the     *)
(* value `undefined` (a missing key, a missing file, an option left out).  *)
(***************************************************************************)
EXTENDS Naturals, Sequences, FiniteSets, TLC

VARIABLES manifest, nodeModules, yarnLock, pc, call, result

vars == <<manifest, nodeModules, yarnLock, pc, call, result>>

-----------------------------------------------------------------------------
(* Bounds and universes                                                    *)

\* longest list of names passed as deps
MaxLen == 2

PkgNames == {"a", "b"}

Undefined == "undefined"

\* String(obj) of a plain object, the property key `installed[dep]` reads
\* when dep is a mapping
ObjKey == "[object Object]"

Keys == PkgNames \cup {ObjKey}

Sections == {"dependencies", "devDependencies"}

Versions == {"1.1.0", "1.2.5"}

\* range strings a caller may give: empty, a valid caret range, not a range
RangeVals == {"", "^1.2.0", "not-a-range"}

\* values a manifest section holds for a package: none, the empty range
\* (any version), a caret range as the runner saves it
DeclVals == {Undefined, "", "^1.2.5"}

Bools == {"true", "false"}

\* ToBoolean on the strings and undefined the code tests
Truthy(v) == v \notin {Undefined, ""}

SeqsUpTo(S, n) == UNION {[1..k -> S] : k \in 0..n}

RECURSIVE SelectIdx(_, _, _)
\* Array.prototype.filter: the elements s[i], i = from..Len(s), with keep[i]
SelectIdx(s, keep, from) ==
    IF from > Len(s) THEN <<>>
    ELSE (IF keep[from] THEN <<s[from]>> ELSE <<>>) \o SelectIdx(s, keep, from + 1)

\* s.filter(callback), keep[i] being the callback's result for s[i]
filter(s, keep) == SelectIdx(s, keep, 1)

Count(s, x) == Cardinality({i \in 1..Len(s) : s[i] = x})

-----------------------------------------------------------------------------
(* semver                                                                  *)

\* major, minor, patch of the version strings of the model
ParseVersion(v) ==
    CASE v = "1.1.0" -> <<1, 1, 0>>
      [] v = "1.2.5" -> <<1, 2, 5>>
      [] OTHER -> <<>>

\* [lower bound, exclusive upper bound] of a caret range, <<>> if not a range
ParseRange(r) ==
    CASE r = "^1.2.0" -> <<<<1, 2, 0>>, <<2, 0, 0>>>>
      [] r = "" -> <<<<0, 0, 0>>, <<1000, 0, 0>>>>
      [] OTHER -> <<>>

VersionLt(x, y) ==
    \/ x[1] < y[1]
    \/ x[1] = y[1] /\ x[2] < y[2]
    \/ x[1] = y[1] /\ x[2] = y[2] /\ x[3] < y[3]

\* semver.validRange(range) is truthy
validRange(range) == ParseRange(range) # <<>>

\* semver.satisfies(version, range)
satisfies(version, range) ==
    /\ ParseVersion(version) # <<>>
    /\ validRange(range)
    /\ ~VersionLt(ParseVersion(version), ParseRange(range)[1])
    /\ VersionLt(ParseVersion(version), ParseRange(range)[2])

-----------------------------------------------------------------------------
(* Readers                                                                 *)

\* property read obj[key] on a manifest section
Get(obj, key) == IF key \in DOMAIN obj THEN obj[key] ELSE Undefined

getOwnDependencies(dev) ==
    manifest[IF dev THEN "devDependencies" ELSE "dependencies"]

getInstalledVersion(name) == Get(nodeModules, name)

\* variant: the lock-file marker is never found
isUsingYarnNever == FALSE

isUsingYarn == yarnLock

-----------------------------------------------------------------------------
(* getUnsatisfiedDeps: the filter callback, its throw and its result       *)

\* the callback throws MrmError for dep
ThrowsFor(dep, versions) ==
    LET required == Get(versions, dep)
    IN  Truthy(required) /\ ~validRange(required)

\* the callback's return value for dep when it does not throw
Unsatisfied(dep, versions, ownDependencies) ==
    LET required == Get(versions, dep)
        installed == getInstalledVersion(dep)
    IN  IF ~Truthy(installed) THEN TRUE
        ELSE IF ~Truthy(Get(ownDependencies, dep)) THEN TRUE
        ELSE IF ~Truthy(required) THEN ~Truthy(installed)
        ELSE ~satisfies(installed, required)

\* variant: the range is validated only after the installed check, so only
\* for packages that are installed
getUnsatisfiedDepsThrowsLate(deps, versions) ==
    \E i \in 1..Len(deps) :
        Truthy(getInstalledVersion(deps[i])) /\ ThrowsFor(deps[i], versions)

\* variant: every entry of versions is validated, requested or not
getUnsatisfiedDepsThrowsAll(deps, versions) ==
    \E n \in DOMAIN versions : ThrowsFor(n, versions)

\* getUnsatisfiedDeps throws: some element of deps makes the callback throw
getUnsatisfiedDepsThrows(deps, versions) ==
    \E i \in 1..Len(deps) : ThrowsFor(deps[i], versions)

\* variant: a loop pushing dep in each failing branch without leaving the
\* iteration, so a package neither installed nor declared is pushed twice
RECURSIVE PushEach(_, _, _, _)
PushEach(deps, versions, ownDependencies, from) ==
    IF from > Len(deps) THEN <<>>
    ELSE LET dep == deps[from]
         IN  (IF ~Truthy(getInstalledVersion(dep)) THEN <<dep>> ELSE <<>>)
             \o (IF ~Truthy(Get(ownDependencies, dep)) THEN <<dep>> ELSE <<>>)
             \o PushEach(deps, versions, ownDependencies, from + 1)

getUnsatisfiedDepsPushTwice(deps, versions, dev) ==
    PushEach(deps, versions, getOwnDependencies(dev), 1)

getUnsatisfiedDeps(deps, versions, dev) ==
    LET ownDependencies == getOwnDependencies(dev)
    IN  filter(deps, [i \in 1..Len(deps) |->
                        Unsatisfied(deps[i], versions, ownDependencies)])

\* variant: the required range is dropped, every package is asked at latest
getVersionedDepLatest(dep, versions) == dep \o "@" \o "latest"

getVersionedDep(dep, versions) ==
    LET version == IF Truthy(Get(versions, dep)) THEN Get(versions, dep) ELSE "latest"
    IN  dep \o "@" \o version

-----------------------------------------------------------------------------
(* Command construction                                                    *)

\* variant: no save flag on uninstall
runNpmNoFlagOnRemove(deps, remove, dev) ==
    [program |-> "npm",
     args |-> (IF remove THEN <<"uninstall">>
               ELSE <<"install", IF dev THEN "--save-dev" ELSE "--save">>) \o deps]

runNpm(deps, remove, dev) ==
    [program |-> "npm",
     args |-> <<IF remove THEN "uninstall" ELSE "install",
                IF dev THEN "--save-dev" ELSE "--save">> \o deps]

runYarn(deps, remove, dev) ==
    LET add == IF dev THEN <<"add", "--dev">> ELSE <<"add">>
    IN  [program |-> "yarn",
         args |-> (IF remove THEN <<"remove">> ELSE add) \o deps]

\* const run = options.yarn || isUsingYarn() ? runYarn : runNpm; run(...)
run(yarn, deps, remove, dev) ==
    IF yarn \/ isUsingYarn THEN runYarn(deps, remove, dev)
    ELSE runNpm(deps, remove, dev)

-----------------------------------------------------------------------------
(* Requests                                                                *)

NoMap == [n \in PkgNames |-> Undefined]

\* a name -> range object: keys in Object.keys order, map its values
IsMapping(keys, map) ==
    /\ \A i, j \in 1..Len(keys) : i # j => keys[i] # keys[j]
    /\ \A n \in PkgNames : (map[n] # Undefined) <=> (\E i \in 1..Len(keys) : keys[i] = n)

Maps == [PkgNames -> RangeVals \cup {Undefined}]

DistinctSeqs(S) ==
    {s \in SeqsUpTo(S, Cardinality(S)) : \A i, j \in 1..Len(s) : i # j => s[i] # s[j]}

\* deps: a single name, a list of names, or a name -> range object
DepsInputs ==
    {[shape |-> "string", list |-> <<n>>, map |-> NoMap] : n \in PkgNames}
    \cup {[shape |-> "array", list |-> s, map |-> NoMap] : s \in SeqsUpTo(PkgNames, MaxLen)}
    \cup {[shape |-> "object", list |-> p[1], map |-> p[2]] :
            p \in {q \in DistinctSeqs(PkgNames) \X Maps : IsMapping(q[1], q[2])}}

\* options.dev, options.yarn, options.versions; a versions entry left out is
\* Undefined
InstallOptions(deps) ==
    [dev : Bools,
     yarn : BOOLEAN,
     versions : IF deps.shape = "object" THEN {NoMap} ELSE Maps]

UninstallOptions ==
    [dev : Bools, yarn : BOOLEAN, versions : {NoMap}]

NoCall ==
    [op |-> "none", deps |-> [shape |-> "array", list |-> <<>>, map |-> NoMap],
     options |-> [dev |-> Undefined, yarn |-> FALSE, versions |-> NoMap]]

NoResult == [kind |-> "none", newDeps |-> <<>>, commands |-> <<>>, exec |-> "none"]

-----------------------------------------------------------------------------
(* install and uninstall                                                   *)

Returned(newDeps, commands) ==
    [kind |-> "returned", newDeps |-> newDeps, commands |-> commands,
     exec |-> IF commands = <<>> THEN "none" ELSE "pending"]

Threw == [kind |-> "threw", newDeps |-> <<>>, commands |-> <<>>, exec |-> "none"]

\* const dev = options.dev !== false
DevOf(options) == options.dev # "false"

\* the versions object install ends up with (lines 39-53)
VersionsOf(deps, options) ==
    IF deps.shape = "object" THEN deps.map ELSE options.versions

\* the dependencies array install ends up with (lines 42-53)
DependenciesOf(deps) == deps.list

install(deps, options) ==
    LET dev == DevOf(options)
        versions == VersionsOf(deps, options)
        dependencies == DependenciesOf(deps)
    IN  IF getUnsatisfiedDepsThrows(dependencies, versions) THEN Threw
        ELSE LET newDeps == getUnsatisfiedDeps(dependencies, versions, dev)
                 versionedDeps ==
                     [i \in 1..Len(newDeps) |-> getVersionedDep(newDeps[i], versions)]
             IN  IF Len(newDeps) = 0 THEN Returned(<<>>, <<>>)
                 ELSE Returned(newDeps, <<run(options.yarn, versionedDeps, FALSE, dev)>>)

\* variant: a mapping is expanded into its keys, as install does
castArrayKeys(deps) == deps.list

\* _.castArray(deps): a mapping becomes a one-element array holding the
\* mapping, written here as the key it is looked up under
castArray(deps) == IF deps.shape = "object" THEN <<ObjKey>> ELSE deps.list

uninstall(deps, options) ==
    LET castDeps == castArray(deps)
        dev == DevOf(options)
        installed == getOwnDependencies(dev)
        newDeps == filter(castDeps, [i \in 1..Len(castDeps) |->
                                        Truthy(Get(installed, castDeps[i]))])
    IN  IF Len(newDeps) = 0 THEN Returned(<<>>, <<>>)
        ELSE Returned(newDeps, <<run(options.yarn, newDeps, TRUE, dev)>>)

-----------------------------------------------------------------------------
(* The command runner: npm or yarn carrying out the command                *)

Flags == {"install", "uninstall", "add", "remove", "--save", "--save-dev", "--dev"}

IsFlag(x) == x \in Flags

PkgArgs(cmd) == filter(cmd.args, [i \in 1..Len(cmd.args) |-> ~IsFlag(cmd.args[i])])

IsRemove(cmd) == cmd.args[1] \in {"uninstall", "remove"}

\* the manifest section the command saves to
SaveSection(cmd) ==
    IF \E i \in 1..Len(cmd.args) : cmd.args[i] \in {"--save-dev", "--dev"}
    THEN "devDependencies" ELSE "dependencies"

Specs == {"latest"} \cup {r \in RangeVals : r # "" /\ validRange(r)}

\* the name@spec arguments the runner can resolve, with their parts
ArgTable == {<<n \o "@" \o sp, n, sp>> : n \in PkgNames, sp \in Specs}

Resolvable(arg) == \E t \in ArgTable : t[1] = arg

ArgName(arg) == (CHOOSE t \in ArgTable : t[1] = arg)[2]

ArgSpec(arg) == (CHOOSE t \in ArgTable : t[1] = arg)[3]

Newest(vs) == CHOOSE v \in vs : \A w \in vs : ~VersionLt(ParseVersion(v), ParseVersion(w))

\* the version the runner installs for a spec: the newest one matching
Resolve(sp) ==
    IF sp = "latest" THEN Newest(Versions)
    ELSE Newest({w \in Versions : satisfies(w, sp)})

\* the range the runner writes to the manifest: the save prefix and the
\* version it installed
Saved(sp) == "^" \o Resolve(sp)

CanRun(cmd) ==
    LET pkgs == PkgArgs(cmd)
    IN  IF IsRemove(cmd) THEN \A i \in 1..Len(pkgs) : pkgs[i] \in PkgNames
        ELSE \A i \in 1..Len(pkgs) : Resolvable(pkgs[i])

\* what the command asks for each package it names: "remove", or the spec of
\* the last argument naming the package
Asked(cmd) ==
    LET pkgs == PkgArgs(cmd)
        names == [i \in 1..Len(pkgs) |->
                    IF IsRemove(cmd) THEN pkgs[i] ELSE ArgName(pkgs[i])]
        Last(n) == CHOOSE i \in 1..Len(pkgs) :
                      names[i] = n /\ \A j \in 1..Len(pkgs) : names[j] = n => j <= i
    IN  [n \in {names[i] : i \in 1..Len(pkgs)} |->
           IF IsRemove(cmd) THEN "remove" ELSE ArgSpec(pkgs[Last(n)])]

ManifestAfter(cmd) ==
    LET asked == Asked(cmd)
        section == SaveSection(cmd)
    IN  [s \in Sections |-> [k \in Keys |->
            IF k \notin DOMAIN asked THEN manifest[s][k]
            ELSE IF asked[k] = "remove" THEN Undefined
            ELSE IF s = section THEN Saved(asked[k])
            ELSE manifest[s][k]]]

NodeModulesAfter(cmd) ==
    LET asked == Asked(cmd)
    IN  [n \in PkgNames |->
            IF n \notin DOMAIN asked THEN nodeModules[n]
            ELSE IF asked[n] = "remove" THEN Undefined
            ELSE Resolve(asked[n])]

-----------------------------------------------------------------------------
(* State machine                                                           *)

TypeOK ==
    /\ manifest \in [Sections -> [Keys -> STRING]]
    /\ nodeModules \in [PkgNames -> Versions \cup {Undefined}]
    /\ yarnLock \in BOOLEAN
    /\ pc \in {"idle", "called", "finished"}

\* a manifest section: the packages' entries, and possibly one under ObjKey
SectionVals(objVals) ==
    {[k \in Keys |-> IF k = ObjKey THEN o ELSE d[k]] :
        d \in [PkgNames -> DeclVals], o \in objVals}

Env(objVals) ==
    /\ manifest \in [Sections -> SectionVals(objVals)]
    /\ nodeModules \in [PkgNames -> Versions \cup {Undefined}]
    /\ yarnLock \in BOOLEAN

Init ==
    /\ Env({Undefined})
    /\ pc = "idle"
    /\ call = NoCall
    /\ result = NoResult

\* as Init, with manifests that may hold an entry under ObjKey
InitObj ==
    /\ Env({Undefined, "^1.2.5"})
    /\ pc = "idle"
    /\ call = NoCall
    /\ result = NoResult

Install ==
    /\ pc = "idle"
    /\ \E deps \in DepsInputs : \E options \in InstallOptions(deps) :
         /\ call' = [op |-> "install", deps |-> deps, options |-> options]
         /\ result' = install(deps, options)
    /\ pc' = "called"
    /\ UNCHANGED <<manifest, nodeModules, yarnLock>>

Uninstall ==
    /\ pc = "idle"
    /\ \E deps \in DepsInputs : \E options \in UninstallOptions :
         /\ call' = [op |-> "uninstall", deps |-> deps, options |-> options]
         /\ result' = uninstall(deps, options)
    /\ pc' = "called"
    /\ UNCHANGED <<manifest, nodeModules, yarnLock>>

\* the caller repeats an install whose command succeeded, same request and options
InstallAgain ==
    /\ pc = "finished"
    /\ call.op = "install"
    /\ result.exec = "ok"
    /\ call' = call
    /\ result' = install(call.deps, call.options)
    /\ pc' = "called"
    /\ UNCHANGED <<manifest, nodeModules, yarnLock>>

\* the runner carries out the pending command
RunnerDone ==
    /\ pc = "called"
    /\ result.exec = "pending"
    /\ CanRun(result.commands[1])
    /\ manifest' = ManifestAfter(result.commands[1])
    /\ nodeModules' = NodeModulesAfter(result.commands[1])
    /\ result' = [result EXCEPT !.exec = "ok"]
    /\ pc' = "finished"
    /\ UNCHANGED <<yarnLock, call>>

\* the runner reports failure; the error propagates and the call is over
RunnerFail ==
    /\ pc = "called"
    /\ result.exec = "pending"
    /\ pc' = "idle"
    /\ call' = NoCall
    /\ result' = NoResult
    /\ UNCHANGED <<manifest, nodeModules, yarnLock>>

\* the call is over; nothing of it outlives it
Return ==
    /\ \/ pc = "finished"
       \/ pc = "called" /\ result.exec = "none"
    /\ pc' = "idle"
    /\ call' = NoCall
    /\ result' = NoResult
    /\ UNCHANGED <<manifest, nodeModules, yarnLock>>

Next == Install \/ Uninstall \/ InstallAgain \/ RunnerDone \/ RunnerFail \/ Return

Spec == Init /\ [][Next]_vars

NextUninstall == Uninstall \/ RunnerDone \/ RunnerFail \/ Return

SpecUninstall == InitObj /\ [][NextUninstall]_vars

-----------------------------------------------------------------------------
(* Vocabulary of the properties, written from the state alone              *)

\* a call has been made and its result computed; the manifest, node_modules
\* and lock file are still as the call read them
InInstall == pc = "called" /\ call.op = "install"

InUninstall == pc = "called" /\ call.op = "uninstall"

\* the names the call asks about, in request order
Requested == call.deps.list

\* the version-constraint map in effect for the install call
Constraints == IF call.deps.shape = "object" THEN call.deps.map ELSE call.options.versions

DevFlag == call.options.dev = "true"

\* the manifest section selected by dev
Selected == manifest[IF DevFlag THEN "devDependencies" ELSE "dependencies"]

IsKey(section, k) == section[k] # Undefined

HasRange(n) == Constraints[n] \notin {Undefined, ""}

BadRange(n) == Constraints[n] = "not-a-range"

\* installed version v lies in the caret range "^1.2.0"
InCaret120(v) == v = "1.2.5"

Meets(n) == Constraints[n] = "^1.2.0" /\ InCaret120(nodeModules[n])

\* the package arguments of a command: what follows the verb and the flag
LastArgs(cmd, k) == SubSeq(cmd.args, Len(cmd.args) - k + 1, Len(cmd.args))

NoCommand == result.commands = <<>>

UsesYarn == call.options.yarn \/ yarnLock

-----------------------------------------------------------------------------
(* C1 *)

\* what the claim says makes a requested package unsatisfied
ClaimedUnsatisfied(n) ==
    \/ nodeModules[n] = Undefined
    \/ ~IsKey(Selected, n)
    \/ HasRange(n) /\ ~Meets(n)

\* C1: for every install call with valid ranges, the unsatisfied set is
\* exactly the requested names, in request order, that are not installed, or
\* installed but not a key of the manifest section selected by dev, or
\* installed with a required range the installed version does not satisfy.
C1_UnsatisfiedSet ==
    (InInstall /\ \A i \in 1..Len(Requested) : ~BadRange(Requested[i]))
        => /\ result.kind = "returned"
           /\ result.newDeps = SelectSeq(Requested, ClaimedUnsatisfied)

-----------------------------------------------------------------------------
(* C2 *)

\* C2: if any requested package of an install call has a non-empty required
\* range that is not a valid semver range, the call fails with MrmError and
\* no command is handed to the runner, whatever the position of that package
\* and whatever the state of the other requested packages.
C2_InvalidRangeFails ==
    (InInstall /\ \E i \in 1..Len(Requested) : BadRange(Requested[i]))
        => result.kind = "threw" /\ NoCommand

\* the invalid range belongs to the second requested package, and the first
\* one is not installed, so the filter callback has already kept it
C2_Witness ==
    /\ InInstall
    /\ Len(Requested) = 2
    /\ ~BadRange(Requested[1])
    /\ nodeModules[Requested[1]] = Undefined
    /\ BadRange(Requested[2])
    /\ result.kind = "threw"

-----------------------------------------------------------------------------
(* C3 *)

\* every requested package is declared in the selected section and installed
\* at a version satisfying its required range, if any
AllDeclaredAndSatisfied ==
    \A i \in 1..Len(Requested) :
        LET n == Requested[i]
        IN  /\ IsKey(Selected, n)
            /\ nodeModules[n] # Undefined
            /\ ~BadRange(n)
            /\ HasRange(n) => Meets(n)

\* C3: repeated install converges: once the runner has completed the
\* command of an install call, the same call issues no command; and an
\* install call made when all requested packages are already declared with
\* a satisfying installed version issues no command.
C3_Converges ==
    /\ (pc = "finished" /\ call.op = "install")
          => install(call.deps, call.options).commands = <<>>
    /\ (InInstall /\ AllDeclaredAndSatisfied) => NoCommand

\* the first half of C3 alone
C3_AfterRunner ==
    (pc = "finished" /\ call.op = "install")
        => install(call.deps, call.options).commands = <<>>

-----------------------------------------------------------------------------
(* C4 *)

RequestedIsKey(n) == IsKey(Selected, n)

\* C4: for every uninstall call (of a name or a list of names), the
\* removable set is exactly the requested names that are keys of the manifest
\* section selected by dev, in request order, and when it is empty no command
\* is handed to the runner.
C4_RemovableSet ==
    (InUninstall /\ call.deps.shape # "object")
        => /\ result.kind = "returned"
           /\ result.newDeps = SelectSeq(Requested, RequestedIsKey)
           /\ (result.newDeps = <<>> => NoCommand)

-----------------------------------------------------------------------------
(* C5 *)

Pinned(n) == n \o "@" \o (IF HasRange(n) THEN Constraints[n] ELSE "latest")

\* C5: install runs no command when the unsatisfied set is empty, and
\* exactly one when it is not; its package arguments are the unsatisfied
\* names in request order, each as name@range when a non-empty required range
\* exists for the name and as name@latest otherwise.
C5_CommandFromUnsatisfied ==
    InInstall =>
        IF result.newDeps = <<>> THEN NoCommand
        ELSE /\ Len(result.commands) = 1
             /\ Len(result.commands[1].args) > Len(result.newDeps)
             /\ LastArgs(result.commands[1], Len(result.newDeps))
                  = [i \in 1..Len(result.newDeps) |-> Pinned(result.newDeps[i])]

\* two packages to install, the first with a range and the second without
C5_Witness ==
    /\ InInstall
    /\ Len(result.newDeps) = 2
    /\ HasRange(result.newDeps[1])
    /\ Constraints[result.newDeps[2]] = ""
    /\ Len(result.commands) = 1

-----------------------------------------------------------------------------
(* C6 *)

\* C6: in every install or uninstall call that issues a command, the command
\* is yarn's (add / remove) if options.yarn is set or yarn.lock exists, and
\* npm's (install / uninstall) otherwise; one command carries the whole batch.
C6_BackendSelection ==
    (pc = "called" /\ ~NoCommand) =>
        LET cmd == result.commands[1]
        IN  /\ Len(result.commands) = 1
            /\ cmd.program = (IF UsesYarn THEN "yarn" ELSE "npm")
            /\ cmd.args[1] =
                 (IF UsesYarn
                  THEN (IF call.op = "install" THEN "add" ELSE "remove")
                  ELSE (IF call.op = "install" THEN "install" ELSE "uninstall"))
            /\ Len(cmd.args) > Len(result.newDeps)
            /\ \A i \in 1..Len(result.newDeps) :
                 \E j \in 2..Len(cmd.args) :
                    cmd.args[j] \in {result.newDeps[i], Pinned(result.newDeps[i])}

\* yarn chosen by the lock file alone, for a batch of two packages
C6_Witness ==
    /\ pc = "called"
    /\ ~call.options.yarn
    /\ yarnLock
    /\ Len(result.newDeps) = 2
    /\ ~NoCommand
    /\ result.commands[1].program = "yarn"

-----------------------------------------------------------------------------
(* C7 *)

\* C7 as stated: if any entry of the version-constraint map in effect is
\* invalid, the install call fails and runs no command.
C7_AnyInvalidEntryFails ==
    (InInstall /\ \E n \in PkgNames : BadRange(n))
        => result.kind = "threw" /\ NoCommand

\* C7 as amended: the install call fails with a configuration error, and runs
\* no command, exactly when an entry of the map that belongs to a requested
\* package is non-empty and invalid; an invalid entry of a package that is not
\* requested is ignored.
C7_RequestedInvalidEntryFails ==
    InInstall =>
        /\ result.kind = "threw" <=> \E i \in 1..Len(Requested) : BadRange(Requested[i])
        /\ result.kind = "threw" => NoCommand

\* an invalid entry for a package that is not requested, and a command issued
C7_Witness ==
    /\ InInstall
    /\ \E n \in PkgNames :
         /\ BadRange(n)
         /\ \A i \in 1..Len(Requested) : Requested[i] # n
    /\ result.kind = "returned"
    /\ ~NoCommand

-----------------------------------------------------------------------------
(* C8 *)

MappingKeys == {Requested[i] : i \in 1..Len(Requested)}

ArgsOf(cmds) == UNION {{c.args[j] : j \in 1..Len(c.args)} : c \in {cmds[i] : i \in 1..Len(cmds)}}

\* C8 as stated: given a mapping, uninstall acts on the mapping's keys: every
\* key declared in the selected manifest section is in the removable set and
\* is passed to the remove command.
C8_MappingKeysRemoved ==
    (InUninstall /\ call.deps.shape = "object") =>
        \A k \in MappingKeys :
            IsKey(Selected, k) =>
                /\ \E i \in 1..Len(result.newDeps) : result.newDeps[i] = k
                /\ k \in ArgsOf(result.commands)

\* C8 as amended: uninstall takes a name or a list of names. A mapping is
\* not expanded into its keys: it is treated as one element, looked up in the
\* selected section under "[object Object]", so none of its keys is passed to
\* a remove command, and a command is issued only when the section has a
\* non-empty entry under that key.
C8_MappingNotExpanded ==
    (InUninstall /\ call.deps.shape = "object") =>
        /\ result.newDeps = (IF Selected[ObjKey] \notin {Undefined, ""}
                             THEN <<ObjKey>> ELSE <<>>)
        /\ NoCommand <=> result.newDeps = <<>>
        /\ MappingKeys \cap ArgsOf(result.commands) = {}

\* a mapping whose key is declared in the selected section, and no command
C8_Witness ==
    /\ InUninstall
    /\ call.deps.shape = "object"
    /\ \E k \in MappingKeys : Selected[k] = "^1.2.5"
    /\ NoCommand

-----------------------------------------------------------------------------
(* C9 *)

\* C9 as stated: the argument list uninstall hands to the runner is the same
\* whether dev is true or false, for either backend and the same packages.
C9_RemoveArgsIgnoreDev ==
    (InUninstall /\ ~NoCommand) =>
        result.commands[1].args
            = run(call.options.yarn, result.newDeps, TRUE, ~DevFlag).args

\* C9 as amended: yarn's remove command ignores dev: its arguments are
\* remove and the packages. npm's uninstall command carries the save flag:
\* --save-dev when dev is true, --save when it is false.
C9_RemoveArgs ==
    (InUninstall /\ ~NoCommand) =>
        result.commands[1].args =
            (IF UsesYarn THEN <<"remove">>
             ELSE <<"uninstall", IF DevFlag THEN "--save-dev" ELSE "--save">>)
            \o result.newDeps

\* npm uninstall with dev false
C9_Witness ==
    /\ InUninstall
    /\ ~NoCommand
    /\ ~DevFlag
    /\ result.commands[1].args[1] = "uninstall"
    /\ result.commands[1].args[2] = "--save"

-----------------------------------------------------------------------------
(* C10 *)

\* the arguments of the issued commands naming package n
NamingArgs(n) ==
    IF NoCommand THEN {}
    ELSE {j \in 1..Len(result.commands[1].args) :
            result.commands[1].args[j] \in {n, Pinned(n)}}

\* C10 as stated: the action sequence and the package arguments of the
\* issued command contain each package name at most once, also when the
\* list of names holds a name more than once.
C10_NamesUnique ==
    pc = "called" =>
        \A n \in PkgNames :
            /\ Count(result.newDeps, n) <= 1
            /\ Cardinality(NamingArgs(n)) <= 1

\* C10 as amended: the request is not de-duplicated. A name occurs in the
\* action sequence, and among the package arguments, at most as often as it
\* occurs in the request: at most once for a single name, a mapping or a
\* list without repetition, and possibly more than once for a list that
\* repeats it.
C10_NamesNoMoreThanRequested ==
    pc = "called" =>
        \A n \in PkgNames :
            /\ Count(result.newDeps, n) <= Count(Requested, n)
            /\ Cardinality(NamingArgs(n)) <= Count(Requested, n)

\* the list repeats a name, and the command names it twice
C10_Witness ==
    /\ InInstall
    /\ call.deps.shape = "array"
    /\ \E n \in PkgNames :
         /\ Count(Requested, n) = 2
         /\ Count(result.newDeps, n) = 2
         /\ Cardinality(NamingArgs(n)) = 2

====
